---- MODULE Spec2Model ----
(***************************************************************************)
(* Payment and fulfilment pipeline of the Telegram Premium bot:            *)
(* the balance ledger (database.py), the deposit matcher (usdtpay.py),     *)
(* the fulfilment queue and its drain loop (bot.py) and the provider call  *)
(* (premium_service.py).                                                   *)
(*                                                                         *)
(* Money is counted in units of 0.0001 USDT: usdtpay.amount is             *)
(* DECIMAL(10,4), so an order amount is an integer here; the columns       *)
(* user_balances.balance and okusdt.amount are DECIMAL(10,3), so a stored  *)
(* balance is a multiple of 10.                                            *)
(*                                                                         *)
(* Every coroutine is a process that other coroutines interleave with at   *)
(* its awaits.  A database transaction's writes become visible at its      *)
(* commit; InnoDB keeps the row locks of a transaction until then.         *)
(***************************************************************************)
EXTENDS Integers, Sequences, FiniteSets, TLC

\* ---------------------------------------------------------------- bounds
MaxOrders == 2          \* deposit orders ever created
MaxTransfers == 1       \* inbound transfers ever seen by the indexer
MaxQueueTasks == 1      \* fulfilment tasks ever enqueued
MaxAdminOps == 1        \* admin balance adjustments ever issued
MaxCallers == 6         \* callers of send_request at once

\* ------------------------------------------------------ program constants
MAX_PENDING_ORDERS == 3     \* usdtpay.py: pending_orders_count >= 3
OFFSET_MIN == 10            \* usdtpay.py: random.uniform(0.001, ...)
OFFSET_MAX == 100           \* usdtpay.py: random.uniform(..., 0.01)
BALANCE_STEP == 10          \* database.py: balance DECIMAL(10,3)
max_retries == 3            \* bot.py: max_retries = 3
max_tasks == 5              \* bot.py: max_tasks: int = 5
RECORD_ARITY == 8           \* database.py: parameters of record_completed_order
ACTIVATE_RECORD_ARGS == 6   \* premium_service.py: arguments passed to it
PRICE_3_MONTHS == 300000    \* config.py: PRICES[3], read from welcome.json
MAX_NOTIFY_RETRIES == 3     \* usdtpay.py: while not notified and retries < 3
max_instances == 1          \* bot.py: run_repeating without job_kwargs
API_SEMAPHORE == 5          \* premium_service.py: api_semaphore = asyncio.Semaphore(5)
request_max_retries == 3    \* premium_service.py: max_retries = 3
request_retry_delay == 2    \* premium_service.py: retry_delay = 2

\* aiomysql.create_pool(autocommit=False): statements run in transactions
POOL_AUTOCOMMIT == FALSE

\* get_db: `if conn.autocommit: await conn.commit()`.  Connection.autocommit of
\* aiomysql is a coroutine method (the flag is read with get_autocommit()), so
\* the test sees a bound method, which is true whatever the pool's setting.
conn_autocommit == TRUE

\* ------------------------------------------------------------ input sets
Users == {"u1", "u2"}
Handlers == {1, 2}                      \* concurrently running deposit handlers
Drains == {1, 2}                        \* concurrently running process_premium_queue
Callers == {1, 2}                       \* concurrently running record_completed_order
Jobs == {"process_premium_queue", "check_input_usdt"}   \* run_repeating
BaseAmounts == {100000}                 \* requested top-up: 10.00
Offsets == {o \in OFFSET_MIN..OFFSET_MAX : o <= OFFSET_MIN + 1}
WholeDeltas == {500000, -50000}         \* "用户<id> +50", "用户<id> -5"
AdminDeltas == WholeDeltas \cup {5}     \* and "用户<id> +0.0005"
ReqIds == {"R1", "R2"}                  \* settlement ids the provider issues
RealizedCosts == {298000}               \* pay_amount the provider asks: 29.80
Durations == {3}
TaskIds == 1..(max_tasks + 1 + MaxQueueTasks)   \* premium_queue.id
TreasuryBalances == {200000, 300000}   \* wallet balance: 20 TON, 30 TON
Quotes == {298000, 305000}             \* amount the provider quotes

NoOrder == 0
NoTask == 0
NoReq == "none"

\* ---------------------------------------------------------------- state
VARIABLES
    user_balances,      \* table user_balances: telegram_id -> balance
    row_lock,           \* telegram_id -> holder of the row's FOR UPDATE lock
    usdtpay,            \* table usdtpay: out_trade_no -> [telegram_id, amount, status]
    okusdt,             \* table okusdt: out_trade_no -> [telegram_id, amount]
    purchase_orders,    \* table purchase_orders, in insertion order
    completed_orders,   \* table completed_orders: req_id -> [telegram_id, amount]
    premium_queue,      \* table premium_queue, index = AUTO_INCREMENT id
    chain,              \* transfers the indexer reports inside the poll window
    dep,                \* handle_deposit coroutines
    adm,                \* update_admin_config coroutine (balance adjustment)
    pay,                \* handle_usdt_payment coroutines of the running poll
    drain,              \* process_premium_queue coroutines
    sweep,              \* cleanup_expired_orders coroutine
    rec,                \* callers of record_completed_order
    act,                \* one activate_premium call, step by step
    sched,              \* the job queue: running instances per job
    http,               \* one outbound HTTP call and its attempts
    net,                \* outbound calls in flight, by kind
    hist                \* history: what has been applied so far

dbVars == <<user_balances, row_lock, usdtpay, okusdt, purchase_orders,
            completed_orders, premium_queue>>
vars == <<user_balances, row_lock, usdtpay, okusdt, purchase_orders,
          completed_orders, premium_queue, chain, dep, adm, pay, drain, sweep, rec,
          hist, act, sched, http, net>>

\* the processes that the ledger, queue and order actions leave alone
auxVars == <<act, sched, http, net>>

\* ------------------------------------------------------------- helpers
\* MySQL stores an exact value into DECIMAL(10,3) rounded half up.
Round3(x) == ((x + (BALANCE_STEP \div 2)) \div BALANCE_STEP) * BALANCE_STEP

\* get_balance: Decimal(result[0]) if the row exists, else 0.0
get_balance(balances, u) == IF u \in DOMAIN balances THEN balances[u] ELSE 0

\* INSERT ... ON DUPLICATE KEY UPDATE balance = new
Upsert(balances, u, new) ==
    [x \in DOMAIN balances \cup {u} |-> IF x = u THEN Round3(new) ELSE balances[x]]

SetBalanceNeverRaises(current, amount) == FALSE

\* set_balance raises ValueError when current + amount < 0
SetBalanceRaises(current, amount) == current + amount < 0

SelectWithoutLock(locks, u, who) == locks

\* SELECT ... FOR UPDATE: the row lock is taken and kept until commit/rollback
ForUpdate(locks, u, who) == [locks EXCEPT ![u] = who]

Release(locks, u) == [locks EXCEPT ![u] = "free"]

OpenOrders(orders) == {o \in DOMAIN orders : orders[o].status = 0}

\* SELECT COUNT(*) FROM usdtpay WHERE telegram_id = u AND status = 0
pending_orders_count(orders, u) ==
    Cardinality({o \in OpenOrders(orders) : orders[o].telegram_id = u})

TooManyPendingLate(count) == count > MAX_PENDING_ORDERS

\* handle_deposit: if pending_orders_count >= 3: return False, "..."
TooManyPending(count) == count >= MAX_PENDING_ORDERS

\* SELECT 1 FROM usdtpay WHERE amount = a AND status = 0
AmountTaken(orders, a) == \E o \in OpenOrders(orders) : orders[o].amount = a

\* get_db leaves the block without an exception: the statements run on conn
\* and not yet committed persist when the exit commits them (or the session
\* autocommits).  An exception in the block rolls them back.
GetDbExit(autocommit, committed, pending) ==
    IF autocommit THEN pending ELSE committed

NoLock == [made_by |-> "nobody", id |-> 0]
IdleDep == [pc |-> "idle", user |-> "none", base |-> 0, amount |-> 0, lock |-> NoLock]
IdleAdm == [pc |-> "idle", target |-> "none", amount |-> 0, current |-> 0]
IdleSweep == [pc |-> "idle", read |-> {}, to_delete |-> {}, failed_notice |-> {},
              freed |-> {}, retries |-> 0, attempts |-> 0, last |-> "none"]
IdleRec == [pc |-> "idle", req_id |-> NoReq, result |-> "none"]
IdleDrain == [pc |-> "idle", tasks_processed |-> 0, task |-> NoTask, retry_count |-> 0,
              balance |-> 0, success |-> FALSE, message |-> "none", req_id |-> NoReq,
              issued |-> NoReq, actual_amount |-> 0, paying |-> 0, outcome |-> "none",
              claimed |-> 0]

IdleAct == [pc |-> "idle", estimated_amount |-> 0, balance |-> 0, req_id |-> NoReq,
            amount |-> 0, log |-> <<>>, result |-> "none"]

IdleHttp == [kind |-> "none", pc |-> "idle", attempt |-> 0, retry_delay |-> 0,
             waits |-> <<>>, outcome |-> "none"]
IdleNet == [holding |-> 0, waiting |-> 0, poll |-> 0, lookup |-> 0]

IdleSched == [running |-> [j \in Jobs |-> 0], skipped |-> {}]

InitAux ==
    /\ act = IdleAct
    /\ sched = IdleSched
    /\ http = IdleHttp
    /\ net = IdleNet

Hist0 ==
    [credits   |-> [t \in 1..(MaxTransfers + 1) |-> 0],   \* ledger credits per transfer
     exact     |-> [u \in Users |-> 0],              \* exact sum of applied deltas
     replay    |-> [u \in Users |-> 0],              \* serial replay at column scale
     debits    |-> [r \in ReqIds |-> 0],             \* purchase debits per req_id
     calls     |-> [t \in TaskIds |-> 0],  \* activate_premium calls per task
     sent      |-> [t \in TaskIds |-> 0],  \* treasury transfers per task
     paid      |-> [t \in TaskIds |-> 0],  \* amount the treasury sent per task
     charged   |-> [t \in TaskIds |-> 0],  \* amount debited per task
     orders    |-> 0,                                \* orders created
     transfers |-> 0,                                \* transfers seen
     admin_ops |-> 0,
     enqueued  |-> 0,                                \* tasks enqueued
     refused   |-> {},                               \* accounts told "balance too low"
     claims    |-> [t \in TaskIds |-> 0],  \* returns by get_next_queue_task
     rejected  |-> {},                               \* accounts told "too many open orders"
     credited  |-> {}]                               \* orders whose match credit is committed

Init ==
    /\ user_balances = <<>>
    /\ row_lock = [u \in Users |-> "free"]
    /\ usdtpay = <<>>
    /\ okusdt = <<>>
    /\ purchase_orders = <<>>
    /\ completed_orders = <<>>
    /\ premium_queue = <<>>
    /\ chain = {}
    /\ dep = [h \in Handlers |-> IdleDep]
    /\ adm = IdleAdm
    /\ pay = <<>>
    /\ drain = [d \in Drains |-> IdleDrain]
    /\ sweep = IdleSweep
    /\ rec = [c \in Callers |-> IdleRec]
    /\ InitAux
    /\ hist = Hist0

\* ------------------------------------------------------------ /start
\* start: INSERT INTO user_balances (.., 0.0) ON DUPLICATE KEY UPDATE username
Start(u) ==
    /\ u \notin DOMAIN user_balances
    /\ row_lock[u] = "free"
    /\ user_balances' = Upsert(user_balances, u, 0)
    /\ UNCHANGED <<row_lock, usdtpay, okusdt, purchase_orders, completed_orders,
                   premium_queue, chain, dep, adm, pay, drain, hist, sweep, rec, auxVars>>

\* ------------------------------------------- admin balance adjustment
\* update_admin_config: conn.begin(); set_balance: SELECT ... FOR UPDATE
AdminBegin(u, amount) ==
    /\ adm.pc = "idle"
    /\ hist.admin_ops < MaxAdminOps
    /\ row_lock[u] = "free"
    /\ row_lock' = ForUpdate(row_lock, u, "adm")
    /\ adm' = [pc |-> "locked", target |-> u, amount |-> amount,
               current |-> get_balance(user_balances, u)]
    /\ hist' = [hist EXCEPT !.admin_ops = @ + 1]
    /\ UNCHANGED <<user_balances, usdtpay, okusdt, purchase_orders, completed_orders,
                   premium_queue, chain, dep, pay, drain, sweep, rec, auxVars>>

\* set_balance: new = current + amount; raise if new < 0; upsert; commit / rollback
AdminFinish ==
    /\ adm.pc = "locked"
    /\ LET u == adm.target
           new == adm.current + adm.amount
           ok == ~SetBalanceRaises(adm.current, adm.amount)
       IN /\ user_balances' = IF ok THEN Upsert(user_balances, u, new) ELSE user_balances
          /\ row_lock' = Release(row_lock, u)
          /\ adm' = IdleAdm
          /\ hist' = IF ok
                     THEN [hist EXCEPT !.exact[u] = @ + adm.amount,
                                       !.replay[u] = Round3(@ + adm.amount)]
                     ELSE hist
    /\ UNCHANGED <<usdtpay, okusdt, purchase_orders, completed_orders,
                   premium_queue, chain, dep, pay, drain, sweep, rec, auxVars>>

\* ------------------------------------------------------ deposit request
InFlight == {h \in Handlers : dep[h].pc # "idle"}

\* user_locks = {}: the module's dictionary of per-user locks.  No statement
\* of the program stores into it.
user_locks == <<>>

\* user_locks.get(user_id, asyncio.Lock()): the stored lock of the user, or
\* else the default, a lock made by this call
user_locks_get(locks, user_id, h) ==
    IF user_id \in DOMAIN locks THEN locks[user_id]
    ELSE [made_by |-> "call", id |-> h]

\* handle_deposit_amount: async with user_locks.get(user_id, asyncio.Lock()),
\* then handle_deposit is entered with a positive amount; the coroutine takes
\* the first free slot and holds its lock until it returns
DepositRequest(h, u, base) ==
    /\ dep[h].pc = "idle"
    /\ \A g \in Handlers : g < h => dep[g].pc # "idle"
    /\ hist.orders + Cardinality(InFlight) < MaxOrders
    /\ \A g \in InFlight : dep[g].lock # user_locks_get(user_locks, u, h)
    /\ dep' = [dep EXCEPT ![h] = [pc |-> "count", user |-> u, base |-> base,
                                  amount |-> 0,
                                  lock |-> user_locks_get(user_locks, u, h)]]
    /\ UNCHANGED <<dbVars, chain, adm, pay, drain, hist, sweep, rec, auxVars>>

\* handle_deposit: the open-order count check, in a transaction of its own
DepositCount(h) ==
    /\ dep[h].pc = "count"
    /\ IF TooManyPending(pending_orders_count(usdtpay, dep[h].user))
       THEN /\ dep' = [dep EXCEPT ![h] = IdleDep]
            /\ hist' = [hist EXCEPT !.rejected = @ \cup {dep[h].user}]
       ELSE /\ dep' = [dep EXCEPT ![h].pc = "generate"]
            /\ UNCHANGED hist
    /\ UNCHANGED <<dbVars, chain, adm, pay, drain, sweep, rec, auxVars>>

\* generate_unique_usdt_amount: one pass of the loop; a taken amount re-rolls
DepositGenerate(h, offset) ==
    /\ dep[h].pc = "generate"
    /\ LET unique_amount == dep[h].base + offset
       IN dep' = IF AmountTaken(usdtpay, unique_amount)
                 THEN dep
                 ELSE [dep EXCEPT ![h].pc = "save", ![h].amount = unique_amount]
    /\ UNCHANGED <<dbVars, chain, adm, pay, drain, hist, sweep, rec, auxVars>>

\* save_usdt_order_to_db: INSERT INTO usdtpay, status 0; the foreign key needs
\* the owner's user_balances row
DepositSave(h) ==
    /\ dep[h].pc = "save"
    /\ LET u == dep[h].user
           out_trade_no == hist.orders + 1
           row == [telegram_id |-> u, amount |-> dep[h].amount, status |-> 0,
                   expired |-> FALSE]
       IN IF u \in DOMAIN user_balances
          THEN /\ usdtpay' = [o \in DOMAIN usdtpay \cup {out_trade_no} |->
                                 IF o = out_trade_no THEN row ELSE usdtpay[o]]
               /\ dep' = [dep EXCEPT ![h] = IdleDep]
               /\ hist' = [hist EXCEPT !.orders = @ + 1]
          ELSE /\ dep' = [dep EXCEPT ![h] = IdleDep]
               /\ UNCHANGED <<usdtpay, hist>>
    /\ UNCHANGED <<user_balances, row_lock, okusdt, purchase_orders, completed_orders,
                   premium_queue, chain, adm, pay, drain, sweep, rec, auxVars>>

\* cancel_usdt_order: UPDATE usdtpay SET status = 2 WHERE out_trade_no = o AND status = 0
cancel_usdt_order(o) ==
    /\ o \in DOMAIN usdtpay
    /\ usdtpay[o].status = 0
    /\ usdtpay' = [usdtpay EXCEPT ![o].status = 2]
    /\ UNCHANGED <<user_balances, row_lock, okusdt, purchase_orders, completed_orders,
                   premium_queue, chain, dep, adm, pay, drain, hist, sweep, rec, auxVars>>

\* ------------------------------------------------------ expiry sweep
\* now passes the order's expires_at (created_at + 20 minutes)
OrderExpires(o) ==
    /\ o \in DOMAIN usdtpay
    /\ ~usdtpay[o].expired
    /\ usdtpay' = [usdtpay EXCEPT ![o].expired = TRUE]
    /\ UNCHANGED <<user_balances, row_lock, okusdt, purchase_orders, completed_orders,
                   premium_queue, chain, dep, adm, pay, drain, sweep, hist, rec, auxVars>>

SweepCandidatesAnyStatus(orders) == {o \in DOMAIN orders : orders[o].expired}

\* cleanup_expired_orders: status != 0 -> continue; expires_at < now_local
SweepCandidates(orders) ==
    {o \in DOMAIN orders : orders[o].status = 0 /\ orders[o].expired}

NotifyOutcomes == {"sent", "forbidden", "error"}

\* cleanup_expired_orders: SELECT ... FROM usdtpay; fetchall.  With nothing
\* expired the run ends without a delete.
SweepRead ==
    /\ sweep.pc \in {"idle", "done"}
    /\ SweepCandidates(usdtpay) # {}
    /\ sweep' = [IdleSweep EXCEPT !.pc = "notify", !.read = SweepCandidates(usdtpay)]
    /\ UNCHANGED <<dbVars, chain, dep, adm, pay, drain, hist, rec, auxVars>>

KeepTryingUncapped(notified, retries) == ~notified

\* cleanup_expired_orders: while not notified and retries < 3
KeepTrying(notified, retries) == ~notified /\ retries < MAX_NOTIFY_RETRIES

\* the order the notification loop is at: all_orders in the order read
SweepCurrent(s) == CHOOSE x \in s.read \ s.to_delete : \A y \in s.read \ s.to_delete : x <= y

\* cleanup_expired_orders: one send_message of the notification loop for the
\* current expired order.  sent: notified = True; Forbidden: notified = True
\* without a retry; any other TelegramError: retries += 1 and, below 3, sleep
\* and try again.  When the loop ends: to_delete.append(out_trade_no).
SweepNotify(outcome) ==
    /\ sweep.pc = "notify"
    /\ LET o == SweepCurrent(sweep)
           notified == outcome \in {"sent", "forbidden"}
           retries == IF outcome = "error" THEN sweep.retries + 1 ELSE sweep.retries
           attempts == (IF sweep.last = "error" THEN sweep.attempts ELSE 0) + 1
           done == sweep.to_delete \cup {o}
       IN IF KeepTrying(notified, retries)
          THEN sweep' = [sweep EXCEPT !.retries = retries, !.attempts = attempts,
                                      !.last = outcome]
          ELSE sweep' = [sweep EXCEPT
                           !.retries = 0, !.attempts = attempts,
                           !.last = IF outcome = "error" THEN "gave_up" ELSE outcome,
                           !.to_delete = done,
                           !.failed_notice = IF outcome = "sent" THEN @ ELSE @ \cup {o},
                           !.pc = IF done = sweep.read THEN "delete" ELSE "notify"]
    /\ UNCHANGED <<dbVars, chain, dep, adm, pay, drain, hist, rec, auxVars>>

\* cleanup_expired_orders: DELETE FROM usdtpay WHERE out_trade_no = %s for every
\* entry of to_delete; commit
SweepDelete ==
    /\ sweep.pc = "delete"
    /\ usdtpay' = [o \in DOMAIN usdtpay \ sweep.to_delete |-> usdtpay[o]]
    /\ sweep' = [sweep EXCEPT !.pc = "done", !.attempts = 0, !.last = "none",
                              !.freed = {usdtpay[o].amount :
                                           o \in sweep.to_delete \cap DOMAIN usdtpay}]
    /\ UNCHANGED <<user_balances, row_lock, okusdt, purchase_orders, completed_orders,
                   premium_queue, chain, dep, adm, pay, drain, hist, rec, auxVars>>

\* ------------------------------------------------------ chain indexer
\* somebody sends the amount of an order to the payment address
ChainTransfer(o) ==
    /\ o \in DOMAIN usdtpay
    /\ hist.transfers < MaxTransfers
    /\ chain' = chain \cup {[id |-> hist.transfers + 1, amount |-> usdtpay[o].amount]}
    /\ hist' = [hist EXCEPT !.transfers = @ + 1]
    /\ UNCHANGED <<dbVars, dep, adm, pay, drain, sweep, rec, auxVars>>

\* the transfer becomes older than start_timestamp = now - 700 s
ChainExpire(t) ==
    /\ t \in chain
    /\ chain' = chain \ {t}
    /\ UNCHANGED <<dbVars, dep, adm, pay, drain, hist, sweep, rec, auxVars>>

\* ------------------------------------------------------ deposit matching
\* check_input_usdt: one handle_usdt_payment per reported event, gathered
check_input_usdt ==
    /\ DOMAIN pay = {}
    /\ chain # {}
    /\ pay' = [t \in {c.id : c \in chain} |->
                 [pc |-> "select",
                  trc20_balance |-> (CHOOSE c \in chain : c.id = t).amount,
                  telegram_id |-> "none", out_trade_no |-> NoOrder]]
    /\ UNCHANGED <<dbVars, chain, dep, adm, drain, hist, sweep, rec, auxVars>>

Without(f, x) == [y \in DOMAIN f \ {x} |-> f[y]]

\* handle_usdt_payment: SELECT telegram_id, out_trade_no ... WHERE amount = %s
\* AND status = 0; fetchone
PaySelect(t) ==
    /\ t \in DOMAIN pay
    /\ pay[t].pc = "select"
    /\ LET found == {o \in OpenOrders(usdtpay) : usdtpay[o].amount = pay[t].trc20_balance}
       IN IF found = {}
          THEN pay' = Without(pay, t)
          ELSE \E o \in found :
                 pay' = [pay EXCEPT ![t] = [@ EXCEPT !.pc = "apply",
                                              !.telegram_id = usdtpay[o].telegram_id,
                                              !.out_trade_no = o]]
    /\ UNCHANGED <<dbVars, chain, dep, adm, drain, hist, sweep, rec, auxVars>>

\* handle_usdt_payment: UPDATE usdtpay SET status = 1; UPDATE user_balances SET
\* balance = balance + amount; INSERT INTO okusdt; commit.  A duplicate
\* out_trade_no in okusdt raises and get_db rolls the transaction back.
PayApply(t) ==
    /\ t \in DOMAIN pay
    /\ pay[t].pc = "apply"
    /\ LET u == pay[t].telegram_id
           o == pay[t].out_trade_no
           a == pay[t].trc20_balance
       IN /\ row_lock[u] = "free"
          /\ IF o \in DOMAIN okusdt
             THEN UNCHANGED <<usdtpay, user_balances, okusdt, hist>>
             ELSE /\ usdtpay' = [x \in DOMAIN usdtpay |->
                                   IF x = o THEN [usdtpay[x] EXCEPT !.status = 1]
                                   ELSE usdtpay[x]]
                  /\ user_balances' = [x \in DOMAIN user_balances |->
                                         IF x = u THEN Round3(user_balances[x] + a)
                                         ELSE user_balances[x]]
                  /\ okusdt' = [x \in DOMAIN okusdt \cup {o} |->
                                  IF x = o THEN [telegram_id |-> u, amount |-> Round3(a)]
                                  ELSE okusdt[x]]
                  /\ hist' = [hist EXCEPT !.credits[t] = @ + 1,
                                          !.credited = @ \cup {o},
                                          !.exact[u] = @ + a,
                                          !.replay[u] = Round3(@ + a)]
    /\ pay' = Without(pay, t)
    /\ UNCHANGED <<row_lock, purchase_orders, completed_orders, premium_queue,
                   chain, dep, adm, drain, sweep, rec, auxVars>>

\* ------------------------------------------------------ fulfilment queue
PRICES == (3 :> PRICE_3_MONTHS)

\* premium_queue.created_at DATETIME DEFAULT CURRENT_TIMESTAMP: whole seconds,
\* never before the newest row's
CreatedAtNow(queue) ==
    IF Len(queue) = 0 THEN {1}
    ELSE {queue[Len(queue)].created_at, queue[Len(queue)].created_at + 1}

AffordableAny(user_balance, ref_amount) == TRUE

\* handle_duration_selection: if user_balance >= ref_amount
Affordable(user_balance, ref_amount) == user_balance >= ref_amount

\* handle_duration_selection: get_balance >= PRICES[duration], then
\* add_to_premium_queue (the foreign key needs the owner's user_balances row);
\* otherwise the user is told that the balance is too low and nothing is stored
Enqueue(u, duration) ==
    /\ IF ~Affordable(get_balance(user_balances, u), PRICES[duration])
       THEN /\ u \notin hist.refused
            /\ hist' = [hist EXCEPT !.refused = @ \cup {u}]
            /\ UNCHANGED premium_queue
       ELSE /\ hist.enqueued < MaxQueueTasks
            /\ hist' = [hist EXCEPT !.enqueued = @ + 1]
            /\ IF u \in DOMAIN user_balances
               THEN \E now \in CreatedAtNow(premium_queue) :
                      premium_queue' = Append(premium_queue,
                                              [telegram_id |-> u, duration |-> duration,
                                               status |-> "pending", retry_count |-> 0,
                                               created_at |-> now])
               ELSE UNCHANGED premium_queue
    /\ UNCHANGED <<user_balances, row_lock, usdtpay, okusdt, purchase_orders,
                   completed_orders, chain, dep, adm, pay, drain, sweep, rec, auxVars>>

\* update_queue_task_status: 'failed' also adds 1 to retry_count
update_queue_task_status(queue, task_id, status) ==
    [queue EXCEPT ![task_id] =
        IF status = "failed"
        THEN [@ EXCEPT !.status = "failed", !.retry_count = @ + 1]
        ELSE [@ EXCEPT !.status = status]]

\* process_premium_queue: if retry_count >= max_retries
RetryCapReachedLate(retry_count) == retry_count > max_retries

RetryCapReached(retry_count) == retry_count >= max_retries

Pending(queue) == {i \in 1..Len(queue) : queue[i].status = "pending"}

\* get_next_queue_task: WHERE status = 'pending' ORDER BY created_at ASC LIMIT 1.
\* Rows with the same created_at come in any order.
Oldest(queue) ==
    {i \in Pending(queue) :
        \A j \in Pending(queue) : queue[i].created_at <= queue[j].created_at}

NoLockedTasks(drains) == {}

\* get_next_queue_task: ... FOR UPDATE.  The rows a claim has selected and not
\* yet committed.
LockedTasks(drains) == {drains[d].task : d \in {x \in Drains : drains[x].pc = "update"}}

\* a call with a number of positional arguments other than the number of
\* required parameters raises TypeError
CallRaises(given, required) == given # required

ProviderRuns ==
    [provider_ok : BOOLEAN,     \* the Fragment requests and the wallet check pass
     req_id      : ReqIds,      \* result2["req_id"]
     transfer_ok : BOOLEAN,     \* transfer_ton returns a tx_hash
     amount      : RealizedCosts]

ActivateFailed ==
    [success |-> FALSE, message |-> "failed", req_id |-> NoReq, actual_amount |-> 0,
     sent |-> 0]

activate_premium_unconfirmed(run, completed) ==
    IF ~run.provider_ok THEN ActivateFailed
    ELSE IF run.req_id \in DOMAIN completed
    THEN [success |-> TRUE, message |-> "duplicate", req_id |-> NoReq,
          actual_amount |-> run.amount, sent |-> 0]
    ELSE [success |-> TRUE, message |-> "activated", req_id |-> run.req_id,
          actual_amount |-> run.amount, sent |-> 0]

\* activate_premium: what it returns for one run of the provider, and what the
\* treasury sent.  message "activated" carries "订单号: <req_id>", message
\* "duplicate" (无需重复操作) does not.
activate_premium(run, completed) ==
    IF ~run.provider_ok THEN ActivateFailed
    ELSE IF run.req_id \in DOMAIN completed
    THEN [success |-> TRUE, message |-> "duplicate", req_id |-> NoReq,
          actual_amount |-> run.amount, sent |-> 0]
    ELSE IF ~run.transfer_ok THEN ActivateFailed
    ELSE IF CallRaises(ACTIVATE_RECORD_ARGS, RECORD_ARITY)
    THEN [ActivateFailed EXCEPT !.sent = run.amount]   \* caught by except Exception
    ELSE [success |-> TRUE, message |-> "activated", req_id |-> run.req_id,
          actual_amount |-> run.amount, sent |-> run.amount]

SettleBranchTrusting(success, message, completed) ==
    IF success THEN "purchase" ELSE "failure"

\* process_premium_queue, after activate_premium returned: which branch runs.
\* message.split("订单号: ")[1] raises IndexError when the message has no id.
SettleBranch(success, message, completed) ==
    IF ~success THEN "failure"
    ELSE IF message # "activated" THEN "index_error"
    ELSE IF completed THEN "duplicate"
    ELSE "purchase"

\* record_completed_order: skip when the req_id is there, else INSERT
record_completed_order(completed, req_id, u, amount) ==
    IF req_id \in DOMAIN completed THEN completed
    ELSE [r \in DOMAIN completed \cup {req_id} |->
            IF r = req_id THEN [telegram_id |-> u, amount |-> Round3(amount)]
            ELSE completed[r]]

\* record_completed_order: SELECT req_id ... FOR UPDATE on a req_id without a
\* row locks the gap (InnoDB, REPEATABLE READ); the callers holding it
GapHolders(callers, r) ==
    {c \in Callers : callers[c].pc \in {"selected", "waiting"} /\ callers[c].req_id = r}

\* the callers whose INSERT of r is not yet committed or rolled back
Inserting(callers, r) ==
    {c \in Callers : callers[c].pc = "inserted" /\ callers[c].req_id = r}

\* record_completed_order(req_id, ..., conn, cursor), called on a connection
\* of get_db: the locking SELECT.  It waits for the uncommitted row of another
\* transaction; a row found returns False.
RecordSelect(c, r) ==
    /\ rec[c].pc \in {"idle", "done"}
    /\ Inserting(rec, r) = {}
    /\ rec' = [rec EXCEPT ![c] =
                 IF r \in DOMAIN completed_orders
                 THEN [pc |-> "done", req_id |-> r, result |-> "False"]
                 ELSE [pc |-> "selected", req_id |-> r, result |-> "none"]]
    /\ UNCHANGED <<dbVars, chain, dep, adm, pay, drain, sweep, hist, auxVars>>

\* record_completed_order: INSERT INTO completed_orders.  The insert waits for
\* the gap lock of another transaction; when that one waits for this one's gap
\* lock, InnoDB ends one of the two with a deadlock error and the other's
\* insert goes through.
RecordInsert(c) ==
    /\ rec[c].pc = "selected"
    /\ LET r == rec[c].req_id
           others == GapHolders(rec, r) \ {c}
       IN IF others = {}
          THEN rec' = [rec EXCEPT ![c].pc = "inserted"]
          ELSE IF \E d \in others : rec[d].pc = "waiting"
          THEN \E d \in others, victim \in {"this", "other"} :
                 /\ rec[d].pc = "waiting"
                 /\ rec' = IF victim = "this"
                           THEN [rec EXCEPT ![c] = [@ EXCEPT !.pc = "done",
                                                              !.result = "deadlock"],
                                            ![d].pc = "inserted"]
                           ELSE [rec EXCEPT ![d] = [@ EXCEPT !.pc = "done",
                                                              !.result = "deadlock"],
                                            ![c].pc = "inserted"]
          ELSE rec' = [rec EXCEPT ![c].pc = "waiting"]
    /\ UNCHANGED <<dbVars, chain, dep, adm, pay, drain, sweep, hist, auxVars>>

\* record_completed_order returns True; the caller leaves its get_db block
RecordExit(c, u, amount) ==
    /\ rec[c].pc = "inserted"
    /\ completed_orders' =
          GetDbExit(POOL_AUTOCOMMIT \/ conn_autocommit, completed_orders,
                    record_completed_order(completed_orders, rec[c].req_id, u, amount))
    /\ rec' = [rec EXCEPT ![c] = [@ EXCEPT !.pc = "done", !.result = "True"]]
    /\ UNCHANGED <<user_balances, row_lock, usdtpay, okusdt, purchase_orders,
                   premium_queue, chain, dep, adm, pay, drain, sweep, hist, auxVars>>

\* the trigger fires: process_premium_queue starts with tasks_processed = 0;
\* an invocation takes the first free slot
DrainStart(d) ==
    /\ drain[d].pc = "idle"
    /\ \A e \in Drains : e < d => drain[e].pc # "idle"
    /\ drain' = [drain EXCEPT ![d] = [IdleDrain EXCEPT !.pc = "claim"]]
    /\ UNCHANGED <<dbVars, chain, dep, adm, pay, hist, sweep, rec, auxVars>>

\* get_next_queue_task: the locking SELECT.  It waits while another claim holds
\* a pending row; without a pending row the loop breaks.
DrainSelect(d) ==
    /\ drain[d].pc = "claim"
    /\ Pending(premium_queue) \cap LockedTasks(drain) = {}
    /\ IF Pending(premium_queue) = {}
       THEN drain' = [drain EXCEPT ![d] = IdleDrain]
       ELSE \E i \in Oldest(premium_queue) :
               drain' = [drain EXCEPT ![d] =
                           [IdleDrain EXCEPT !.pc = "update",
                                             !.tasks_processed = drain[d].tasks_processed,
                                             !.task = i,
                                             !.claimed = drain[d].claimed,
                                             !.retry_count = premium_queue[i].retry_count]]
    /\ UNCHANGED <<dbVars, chain, dep, adm, pay, hist, sweep, rec, auxVars>>

\* get_next_queue_task: UPDATE ... SET status = 'processing'; commit; return
DrainUpdate(d) ==
    /\ drain[d].pc = "update"
    /\ premium_queue' = [premium_queue EXCEPT ![drain[d].task].status = "processing"]
    /\ drain' = [drain EXCEPT ![d].pc = "check", ![d].claimed = @ + 1]
    /\ hist' = [hist EXCEPT !.claims[drain[d].task] = @ + 1]
    /\ UNCHANGED <<user_balances, row_lock, usdtpay, okusdt, purchase_orders,
                   completed_orders, chain, dep, adm, pay, sweep, rec, auxVars>>

ContinueUncounted(d, outcome) == [d EXCEPT !.pc = "claim", !.outcome = outcome]

\* the loop goes on: tasks_processed += 1; while tasks_processed < max_tasks
Continue(d, outcome) ==
    [d EXCEPT !.tasks_processed = @ + 1,
              !.pc = IF d.tasks_processed + 1 < max_tasks THEN "claim" ELSE "idle",
              !.outcome = outcome]

\* an exception leaves process_premium_queue
Escape(d, outcome) == [d EXCEPT !.pc = "idle", !.outcome = outcome]

\* process_premium_queue: the retry cap, then the balance re-check.
\* notified: context.bot.send_message does not raise; notified_again: the
\* send_message of the except branch does not raise.
DrainCheck(d, notified, notified_again) ==
    /\ drain[d].pc = "check"
    /\ LET i == drain[d].task
           u == premium_queue[i].telegram_id
           ref_amount == PRICES[premium_queue[i].duration]
           balance == get_balance(user_balances, u)
           failed == update_queue_task_status(premium_queue, i, "failed")
       IN IF RetryCapReached(drain[d].retry_count)
          THEN /\ premium_queue' = failed
               /\ drain' = [drain EXCEPT ![d] =
                              IF notified THEN Continue(drain[d], "cap")
                              ELSE Escape(drain[d], "cap")]
          ELSE IF balance < ref_amount
          THEN /\ premium_queue' = failed
               /\ drain' = [drain EXCEPT ![d] =
                              IF notified_again
                              THEN Continue([drain[d] EXCEPT !.balance = balance],
                                            "insufficient")
                              ELSE Escape([drain[d] EXCEPT !.balance = balance],
                                          "insufficient")]
          ELSE /\ drain' = [drain EXCEPT ![d].pc = "activate", ![d].balance = balance]
               /\ UNCHANGED premium_queue
    /\ UNCHANGED <<user_balances, row_lock, usdtpay, okusdt, purchase_orders,
                   completed_orders, chain, dep, adm, pay, hist, sweep, rec, auxVars>>

\* process_premium_queue: await activate_premium(username, duration, telegram_id),
\* up to its call of transfer_ton (made when the provider requests passed and
\* the settlement id is not in the registry) or, without that call, to its
\* return.  paying: what this run's transfer_ton is going to send.
DrainActivate(d, run) ==
    /\ drain[d].pc = "activate"
    /\ LET r == activate_premium(run, completed_orders)
           i == drain[d].task
           transfers == run.provider_ok /\ run.req_id \notin DOMAIN completed_orders
       IN /\ drain' = [drain EXCEPT ![d] =
                         [@ EXCEPT !.pc = IF transfers THEN "transfer" ELSE "settle",
                                   !.success = r.success,
                                   !.message = r.message, !.req_id = r.req_id,
                                   !.issued = IF run.provider_ok THEN run.req_id
                                              ELSE NoReq,
                                   !.actual_amount = r.actual_amount,
                                   !.paying = r.sent]]
          /\ hist' = [hist EXCEPT !.calls[i] = @ + 1]
    /\ UNCHANGED <<dbVars, chain, dep, adm, pay, sweep, rec, auxVars>>

transfer_lock_unlocked(drains) == FALSE

\* transfer_lock.locked(): a coroutine is inside `async with transfer_lock`
transfer_lock_locked(drains) == \E d \in Drains : drains[d].pc = "sending"

\* transfer_ton: async with transfer_lock; wallet balance and seqno are read
TransferBegin(d) ==
    /\ drain[d].pc = "transfer"
    /\ ~transfer_lock_locked(drain)
    /\ drain' = [drain EXCEPT ![d].pc = "sending"]
    /\ UNCHANGED <<dbVars, chain, dep, adm, pay, hist, sweep, rec, auxVars>>

\* transfer_ton: the message is sent and confirmed, or an exception is raised;
\* the lock is released and activate_premium goes on to its return
TransferEnd(d) ==
    /\ drain[d].pc = "sending"
    /\ LET i == drain[d].task
       IN hist' = [hist EXCEPT !.sent[i] = @ + (IF drain[d].paying > 0 THEN 1 ELSE 0),
                               !.paid[i] = @ + drain[d].paying]
    /\ drain' = [drain EXCEPT ![d].pc = "settle", ![d].paying = 0]
    /\ UNCHANGED <<dbVars, chain, dep, adm, pay, sweep, rec, auxVars>>

\* process_premium_queue, from the return of activate_premium to the end of the
\* loop body.  notified: the branch's send_message does not raise;
\* notified_again: the send_message of the except branch does not raise.
\* process_purchase: conn.begin(); get_balance; set_balance (FOR UPDATE);
\* record_purchase_order; commit.  The statements run on conn after that commit,
\* and those of the other branches, are committed when the get_db block is left
\* without an exception and rolled back otherwise.
DrainSettle(d, notified, notified_again) ==
    /\ drain[d].pc = "settle"
    /\ LET i == drain[d].task
           task == premium_queue[i]
           u == task.telegram_id
           cost == drain[d].actual_amount
           branch == SettleBranch(drain[d].success, drain[d].message,
                                  drain[d].req_id \in DOMAIN completed_orders)
           balance == get_balance(user_balances, u)
           debit_ok == /\ branch = "purchase"
                       /\ balance >= cost
                       /\ ~SetBalanceRaises(balance, -cost)
           raised == branch = "index_error" \/ (branch = "purchase" /\ ~debit_ok)
           entry == [telegram_id |-> u, duration |-> task.duration,
                     amount |-> IF debit_ok THEN Round3(cost) ELSE 0,
                     status |-> IF debit_ok THEN "success"
                                ELSE IF branch = "duplicate" THEN "duplicate"
                                ELSE "failure"]
           q1 == IF raised THEN premium_queue
                 ELSE update_queue_task_status(premium_queue, i,
                          IF branch = "failure" THEN "failed" ELSE "completed")
           handled == raised \/ ~notified
           q2 == IF handled THEN update_queue_task_status(q1, i, "failed") ELSE q1
           outcome == IF branch = "purchase" /\ ~debit_ok THEN "purchase_failed" ELSE branch
       IN /\ (branch = "purchase" => row_lock[u] = "free")
          /\ user_balances' = IF debit_ok THEN Upsert(user_balances, u, balance - cost)
                              ELSE user_balances
          /\ purchase_orders' =
               IF debit_ok THEN Append(purchase_orders, entry)
               ELSE IF branch \in {"duplicate", "failure"} /\ ~handled
               THEN GetDbExit(POOL_AUTOCOMMIT \/ conn_autocommit, purchase_orders,
                              Append(purchase_orders, entry))
               ELSE purchase_orders
          /\ completed_orders' =
               IF debit_ok /\ ~handled
               THEN GetDbExit(POOL_AUTOCOMMIT \/ conn_autocommit, completed_orders,
                              record_completed_order(completed_orders, drain[d].req_id,
                                                     u, cost))
               ELSE completed_orders
          /\ premium_queue' = q2
          /\ drain' = [drain EXCEPT ![d] =
                         IF handled /\ ~notified_again THEN Escape(drain[d], outcome)
                         ELSE Continue(drain[d], outcome)]
          /\ hist' = IF debit_ok
                     THEN [hist EXCEPT !.debits[drain[d].issued] = @ + 1,
                                       !.charged[i] = @ + cost,
                                       !.exact[u] = @ - cost,
                                       !.replay[u] = Round3(@ - cost)]
                     ELSE hist
    /\ UNCHANGED <<row_lock, usdtpay, okusdt, chain, dep, adm, pay, sweep, rec, auxVars>>

\* the process stops while an invocation is under way and is started again:
\* main() builds a new application, every coroutine and every variable of the
\* old process is gone, the database keeps what was committed.  An uncommitted
\* locking SELECT is rolled back by the server.
ProcessStop ==
    /\ \E d \in Drains : drain[d].pc # "idle"
    /\ drain' = [d \in Drains |-> IdleDrain]
    /\ UNCHANGED <<dbVars, chain, dep, adm, pay, hist, sweep, rec, auxVars>>

\* ------------------------------------------------------------ job queue
\* job_queue.run_repeating(callback, interval, first) without job_kwargs: the
\* scheduler submits a run of a job only while fewer than max_instances runs
\* of that job are in progress, and skips the run otherwise.
JobMayStartAlways(running) == TRUE

JobMayStart(running) == running < max_instances

\* the interval of process_premium_queue elapsed
JobFireDrain(d) ==
    LET j == "process_premium_queue"
    IN IF JobMayStart(sched.running[j])
       THEN /\ drain[d].pc = "idle"
            /\ \A e \in Drains : e < d => drain[e].pc # "idle"
            /\ drain' = [drain EXCEPT ![d] = [IdleDrain EXCEPT !.pc = "claim"]]
            /\ sched' = [sched EXCEPT !.running[j] = @ + 1]
            /\ UNCHANGED <<dbVars, chain, dep, adm, pay, sweep, rec, hist, act, http, net>>
       ELSE /\ d = 1
            /\ sched' = [sched EXCEPT !.skipped = @ \cup {j}]
            /\ UNCHANGED <<dbVars, chain, dep, adm, pay, drain, sweep, rec, hist, act, http, net>>

\* the interval of check_input_usdt elapsed: the poll, then one
\* handle_usdt_payment per reported event, gathered
JobFirePoll ==
    LET j == "check_input_usdt"
    IN IF JobMayStart(sched.running[j])
       THEN /\ pay' = [t \in {c.id : c \in chain} \cup DOMAIN pay |->
                         IF t \in DOMAIN pay THEN pay[t]
                         ELSE [pc |-> "select",
                               trc20_balance |-> (CHOOSE c \in chain : c.id = t).amount,
                               telegram_id |-> "none", out_trade_no |-> NoOrder]]
            /\ sched' = [sched EXCEPT !.running[j] = @ + 1]
            /\ UNCHANGED <<dbVars, chain, dep, adm, drain, sweep, rec, hist, act, http, net>>
       ELSE /\ sched' = [sched EXCEPT !.skipped = @ \cup {j}]
            /\ UNCHANGED <<dbVars, chain, dep, adm, pay, drain, sweep, rec, hist, act, http, net>>

\* a run has returned (or raised): the scheduler counts it out
JobReturn(j) ==
    /\ sched.running[j] > 0
    /\ IF j = "process_premium_queue"
       THEN sched.running[j] > Cardinality({d \in Drains : drain[d].pc # "idle"})
       ELSE DOMAIN pay = {}
    /\ sched' = [sched EXCEPT !.running[j] = @ - 1]
    /\ UNCHANGED <<dbVars, chain, dep, adm, pay, drain, sweep, rec, hist, act, http, net>>

\* ------------------------------------------------------- outbound calls
\* the kinds of outbound call: send_request of premium_service.py (provider),
\* the sendBoc loop of transfer_ton (treasury), requests.get of
\* check_input_usdt (indexer), send_request of userjiance.py (provider)
CallKinds == {"send_request", "send_boc", "poll", "lookup"}

ApiSemaphoreAlwaysFree(holding) == TRUE

\* async with api_semaphore: enters while fewer than 5 callers are inside
ApiSemaphoreFree(holding) == holding < API_SEMAPHORE

\* a caller reaches send_request of premium_service.py: it enters the
\* semaphore or waits on it
SendRequestCall ==
    /\ net.holding + net.waiting < MaxCallers
    /\ net' = IF ApiSemaphoreFree(net.holding)
              THEN [net EXCEPT !.holding = @ + 1]
              ELSE [net EXCEPT !.waiting = @ + 1]
    /\ UNCHANGED <<dbVars, chain, dep, adm, pay, drain, sweep, rec, hist, act, sched, http>>

\* a waiting caller enters once a place is free
SendRequestAcquire ==
    /\ net.waiting > 0
    /\ ApiSemaphoreFree(net.holding)
    /\ net' = [net EXCEPT !.waiting = @ - 1, !.holding = @ + 1]
    /\ UNCHANGED <<dbVars, chain, dep, adm, pay, drain, sweep, rec, hist, act, sched, http>>

\* send_request returns or raises: the semaphore is released
SendRequestReturn ==
    /\ net.holding > (IF http.kind = "send_request" /\ http.pc = "attempt" THEN 1 ELSE 0)
    /\ net' = [net EXCEPT !.holding = @ - 1]
    /\ UNCHANGED <<dbVars, chain, dep, adm, pay, drain, sweep, rec, hist, act, sched, http>>

\* the call whose attempts are followed: it starts.  send_request starts
\* inside the semaphore; the other kinds pass no gate.
HttpCall(kind) ==
    /\ http.pc \in {"idle", "done"}
    /\ kind = "send_request" => ApiSemaphoreFree(net.holding)
    /\ kind = "poll" => net.poll = 0
    /\ http' = [IdleHttp EXCEPT !.kind = kind, !.pc = "attempt",
                                !.retry_delay = request_retry_delay]
    /\ net' = CASE kind = "send_request" -> [net EXCEPT !.holding = @ + 1]
                [] kind = "poll" -> [net EXCEPT !.poll = @ + 1]
                [] kind = "lookup" -> [net EXCEPT !.lookup = @ + 1]
                [] OTHER -> net
    /\ UNCHANGED <<dbVars, chain, dep, adm, pay, drain, sweep, rec, hist, act, sched>>

\* the call is over: what it leaves in flight
HttpLeave(n, kind) ==
    CASE kind = "send_request" -> [n EXCEPT !.holding = @ - 1]
      [] kind = "poll" -> [n EXCEPT !.poll = @ - 1]
      [] kind = "lookup" -> [n EXCEPT !.lookup = @ - 1]
      [] OTHER -> n

\* for attempt in range(max_retries): try the request; on an exception raise
\* if attempt == max_retries - 1, else sleep(retry_delay) and double it
RetryAttempt(h, ok) ==
    IF ok THEN [h EXCEPT !.pc = "done", !.attempt = @ + 1, !.outcome = "returned"]
    ELSE IF h.attempt = request_max_retries - 1
    THEN [h EXCEPT !.pc = "done", !.attempt = @ + 1, !.outcome = "raised"]
    ELSE [h EXCEPT !.attempt = @ + 1, !.waits = Append(@, h.retry_delay),
                   !.retry_delay = @ * 2]

\* one attempt of send_request (premium_service.py) or of the sendBoc loop
HttpAttempt(ok) ==
    /\ http.pc = "attempt"
    /\ http.kind \in {"send_request", "send_boc"}
    /\ http' = RetryAttempt(http, ok)
    /\ net' = IF http'.pc = "done" THEN HttpLeave(net, http.kind) ELSE net
    /\ UNCHANGED <<dbVars, chain, dep, adm, pay, drain, sweep, rec, hist, act, sched>>

\* check_input_usdt: one requests.get inside try; except Exception logs
PollRequest(ok) ==
    /\ http.pc = "attempt"
    /\ http.kind = "poll"
    /\ http' = [http EXCEPT !.pc = "done", !.attempt = @ + 1,
                            !.outcome = IF ok THEN "returned" ELSE "logged"]
    /\ net' = HttpLeave(net, "poll")
    /\ UNCHANGED <<dbVars, chain, dep, adm, pay, drain, sweep, rec, hist, act, sched>>

\* send_request of userjiance.py: one post; except Exception logs and raises
LookupRequest(ok) ==
    /\ http.pc = "attempt"
    /\ http.kind = "lookup"
    /\ http' = [http EXCEPT !.pc = "done", !.attempt = @ + 1,
                            !.outcome = IF ok THEN "returned" ELSE "raised"]
    /\ net' = HttpLeave(net, "lookup")
    /\ UNCHANGED <<dbVars, chain, dep, adm, pay, drain, sweep, rec, hist, act, sched>>

\* ------------------------------------------- activate_premium, step by step
\* One call of activate_premium, one action per await.  log keeps the calls
\* made to the provider and to the treasury, in order.
ActFail(a, step) ==
    [a EXCEPT !.pc = "done", !.result = "failed", !.log = Append(@, step)]

\* the call: parameters present, duration valid
ActCall ==
    /\ act.pc \in {"idle", "done"}
    /\ act' = [IdleAct EXCEPT !.pc = "search"]
    /\ UNCHANGED <<dbVars, chain, dep, adm, pay, drain, sweep, rec, hist, sched, http, net>>

\* step 1: searchPremiumGiftRecipient
ActSearch(ok) ==
    /\ act.pc = "search"
    /\ act' = IF ok THEN [act EXCEPT !.pc = "price_check", !.log = Append(@, "search")]
              ELSE ActFail(act, "search_failed")
    /\ UNCHANGED <<dbVars, chain, dep, adm, pay, drain, sweep, rec, hist, sched, http, net>>

\* step 2: initGiftPremiumRequest, read for its amount only
ActPriceCheck(ok, quote) ==
    /\ act.pc = "price_check"
    /\ act' = IF ok THEN [act EXCEPT !.pc = "wallet_check", !.estimated_amount = quote,
                                     !.log = Append(@, "price_check")]
              ELSE ActFail(act, "price_check_failed")
    /\ UNCHANGED <<dbVars, chain, dep, adm, pay, drain, sweep, rec, hist, sched, http, net>>

TreasuryAlwaysSufficient(balance, estimated_amount) == TRUE

\* step 3: if balance < estimated_amount: raise Exception("钱包余额不足")
TreasurySufficient(balance, estimated_amount) == ~(balance < estimated_amount)

ActWalletCheck(balance) ==
    /\ act.pc = "wallet_check"
    /\ act' = IF TreasurySufficient(balance, act.estimated_amount)
              THEN [act EXCEPT !.pc = "create_order", !.balance = balance,
                               !.log = Append(@, "wallet_check")]
              ELSE [ActFail(act, "wallet_short") EXCEPT !.balance = balance]
    /\ UNCHANGED <<dbVars, chain, dep, adm, pay, drain, sweep, rec, hist, sched, http, net>>

\* step 4: initGiftPremiumRequest again, the order: req_id and amount; then
\* is_order_completed(req_id) returns early for a settled id
ActCreateOrder(ok, req_id, quote) ==
    /\ act.pc = "create_order"
    /\ act' = IF ~ok THEN ActFail(act, "order_failed")
              ELSE IF req_id \in DOMAIN completed_orders
              THEN [act EXCEPT !.pc = "done", !.result = "duplicate", !.req_id = req_id,
                               !.amount = quote, !.log = Append(@, "order")]
              ELSE [act EXCEPT !.pc = "confirm", !.req_id = req_id, !.amount = quote,
                               !.log = Append(@, "order")]
    /\ UNCHANGED <<dbVars, chain, dep, adm, pay, drain, sweep, rec, hist, sched, http, net>>

\* steps 5 and 6: updatePremiumState, getGiftPremiumLink, get_raw_request
ActConfirm(ok) ==
    /\ act.pc = "confirm"
    /\ act' = IF ok THEN [act EXCEPT !.pc = "transfer", !.log = Append(@, "confirm")]
              ELSE ActFail(act, "confirm_failed")
    /\ UNCHANGED <<dbVars, chain, dep, adm, pay, drain, sweep, rec, hist, sched, http, net>>

\* step 7: transfer_ton(pay_amount, ...): the balance is read again, then the
\* message is sent and confirmed; record_completed_order follows
ActTransfer(balance, ok) ==
    /\ act.pc = "transfer"
    /\ \A d \in Drains : drain[d].pc # "sending"
    /\ act' = IF balance < act.amount
              THEN ActFail(act, "transfer_ton")
              ELSE IF ~ok
              THEN [act EXCEPT !.pc = "done", !.result = "failed",
                               !.log = @ \o <<"transfer_ton", "send_failed">>]
              ELSE [act EXCEPT !.pc = "done",
                               !.result = IF CallRaises(ACTIVATE_RECORD_ARGS, RECORD_ARITY)
                                          THEN "failed" ELSE "activated",
                               !.log = @ \o <<"transfer_ton", "sent">>]
    /\ UNCHANGED <<dbVars, chain, dep, adm, pay, drain, sweep, rec, hist, sched, http, net>>

\* ------------------------------------------------------------ behaviours
\* the ledger and the deposit matcher
NextLedger ==
    \/ \E u \in Users : Start(u)
    \/ \E u \in Users, amount \in AdminDeltas : AdminBegin(u, amount)
    \/ AdminFinish
    \/ \E h \in Handlers, u \in Users, base \in BaseAmounts : DepositRequest(h, u, base)
    \/ \E h \in Handlers : DepositCount(h)
    \/ \E h \in Handlers, offset \in Offsets : DepositGenerate(h, offset)
    \/ \E h \in Handlers : DepositSave(h)
    \/ \E o \in DOMAIN usdtpay : cancel_usdt_order(o)
    \/ \E o \in 1..MaxOrders : ChainTransfer(o)
    \/ \E t \in chain : ChainExpire(t)
    \/ check_input_usdt
    \/ \E t \in 1..MaxTransfers : PaySelect(t)
    \/ \E t \in 1..MaxTransfers : PayApply(t)

\* the ledger and the fulfilment queue
NextQueue ==
    \/ \E u \in Users : Start(u)
    \/ \E u \in Users, amount \in AdminDeltas : AdminBegin(u, amount)
    \/ AdminFinish
    \/ \E u \in Users, duration \in Durations : Enqueue(u, duration)
    \/ DrainStart(1)
    \/ \E d \in Drains : DrainSelect(d)
    \/ \E d \in Drains : DrainUpdate(d)
    \/ \E d \in Drains, notified \in BOOLEAN, notified_again \in BOOLEAN :
          DrainCheck(d, notified, notified_again)
    \/ \E d \in Drains, run \in ProviderRuns : DrainActivate(d, run)
    \/ \E d \in Drains : TransferBegin(d)
    \/ \E d \in Drains : TransferEnd(d)
    \/ \E d \in Drains, notified \in BOOLEAN, notified_again \in BOOLEAN :
          DrainSettle(d, notified, notified_again)

\* the fulfilment queue alone: purchases enqueued and drained
NextDrain ==
    \/ \E u \in Users, duration \in Durations : Enqueue(u, duration)
    \/ DrainStart(1)
    \/ \E d \in Drains : DrainSelect(d)
    \/ \E d \in Drains : DrainUpdate(d)
    \/ \E d \in Drains, notified \in BOOLEAN, notified_again \in BOOLEAN :
          DrainCheck(d, notified, notified_again)
    \/ \E d \in Drains, run \in ProviderRuns : DrainActivate(d, run)
    \/ \E d \in Drains : TransferBegin(d)
    \/ \E d \in Drains : TransferEnd(d)
    \/ \E d \in Drains, notified \in BOOLEAN, notified_again \in BOOLEAN :
          DrainSettle(d, notified, notified_again)

\* the trigger fires again while an invocation is still running; the provider
\* issues one settlement id
NextOverlap ==
    \/ \E u \in Users, duration \in Durations : Enqueue(u, duration)
    \/ \E d \in Drains : DrainStart(d)
    \/ \E d \in Drains : DrainSelect(d)
    \/ \E d \in Drains : DrainUpdate(d)
    \/ \E d \in Drains, notified \in BOOLEAN, notified_again \in BOOLEAN :
          DrainCheck(d, notified, notified_again)
    \/ \E d \in Drains, run \in {r \in ProviderRuns : r.req_id = "R1"} :
          DrainActivate(d, run)
    \/ \E d \in Drains : TransferBegin(d)
    \/ \E d \in Drains : TransferEnd(d)
    \/ \E d \in Drains, notified \in BOOLEAN, notified_again \in BOOLEAN :
          DrainSettle(d, notified, notified_again)

\* deposit orders: requests and cancellation
NextDeposit ==
    \/ \E u \in Users : Start(u)
    \/ \E h \in Handlers, u \in Users, base \in BaseAmounts : DepositRequest(h, u, base)
    \/ \E h \in Handlers : DepositCount(h)
    \/ \E h \in Handlers, offset \in Offsets : DepositGenerate(h, offset)
    \/ \E h \in Handlers : DepositSave(h)
    \/ \E o \in DOMAIN usdtpay : cancel_usdt_order(o)

\* deposit orders: requests, cancellation, expiry and the sweep
NextOrders ==
    \/ \E u \in Users : Start(u)
    \/ \E h \in Handlers, u \in Users, base \in BaseAmounts : DepositRequest(h, u, base)
    \/ \E h \in Handlers : DepositCount(h)
    \/ \E h \in Handlers, offset \in Offsets : DepositGenerate(h, offset)
    \/ \E h \in Handlers : DepositSave(h)
    \/ \E o \in DOMAIN usdtpay : cancel_usdt_order(o)
    \/ \E o \in DOMAIN usdtpay : OrderExpires(o)
    \/ SweepRead
    \/ \E outcome \in NotifyOutcomes : SweepNotify(outcome)
    \/ SweepDelete

SpecLedger == Init /\ [][NextLedger]_vars

SpecQueue == Init /\ [][NextQueue]_vars

\* the ledger under deposits, matches and admin adjustments
NextBalance ==
    \/ \E u \in Users : Start(u)
    \/ \E u \in Users, amount \in WholeDeltas : AdminBegin(u, amount)
    \/ AdminFinish
    \/ \E h \in Handlers, u \in Users, base \in BaseAmounts : DepositRequest(h, u, base)
    \/ \E h \in Handlers : DepositCount(h)
    \/ \E h \in Handlers, offset \in Offsets : DepositGenerate(h, offset)
    \/ \E h \in Handlers : DepositSave(h)
    \/ \E o \in 1..MaxOrders : ChainTransfer(o)
    \/ check_input_usdt
    \/ \E t \in 1..MaxTransfers : PaySelect(t)
    \/ \E t \in 1..MaxTransfers : PayApply(t)

SpecBalance == Init /\ [][NextBalance]_vars

\* The bot started on a database that already holds rows: init_db creates the
\* tables only IF NOT EXISTS.  The accounts there hold 25.000 or 50.000, the
\* queue may hold a pending task of u1 with any retry_count, the registry may
\* hold settlement R1 of u1 (and then its debit was applied).
InitDb ==
    /\ user_balances \in {[u \in Users |-> b] : b \in {250000, 500000}}
    /\ row_lock = [u \in Users |-> "free"]
    /\ usdtpay = <<>>
    /\ okusdt = <<>>
    /\ purchase_orders = <<>>
    /\ completed_orders \in {<<>>, ("R1" :> [telegram_id |-> "u1", amount |-> 298000])}
    /\ premium_queue \in {<<>>} \cup
          {<<[telegram_id |-> "u1", duration |-> 3, status |-> "pending",
              retry_count |-> r, created_at |-> 1]>> : r \in 0..max_retries}
    /\ chain = {}
    /\ dep = [h \in Handlers |-> IdleDep]
    /\ adm = IdleAdm
    /\ pay = <<>>
    /\ drain = [d \in Drains |-> IdleDrain]
    /\ sweep = IdleSweep
    /\ rec = [c \in Callers |-> IdleRec]
    /\ InitAux
    /\ hist = [Hist0 EXCEPT
                 !.debits = [r \in ReqIds |-> IF r \in DOMAIN completed_orders THEN 1 ELSE 0],
                 !.exact = [u \in Users |-> get_balance(user_balances, u)],
                 !.replay = [u \in Users |-> get_balance(user_balances, u)]]

SpecDb == InitDb /\ [][NextDrain]_vars

\* overlapping invocations on a stored queue of fresh tasks, the registry empty
InitOverlap ==
    /\ InitDb
    /\ completed_orders = <<>>
    /\ \A u \in Users : user_balances[u] = 500000
    /\ \A i \in 1..Len(premium_queue) : premium_queue[i].retry_count = 0

SpecOverlap == InitOverlap /\ [][NextOverlap]_vars

\* orders left by an earlier run of the bot (top-ups of 20.00): three open
\* orders of u1, a matched order of u2
StoredOpen ==
    (101 :> [telegram_id |-> "u1", amount |-> 200010, status |-> 0, expired |-> FALSE])
    @@ (102 :> [telegram_id |-> "u1", amount |-> 200020, status |-> 0, expired |-> FALSE])
    @@ (103 :> [telegram_id |-> "u1", amount |-> 200030, status |-> 0, expired |-> FALSE])

StoredMatched ==
    (104 :> [telegram_id |-> "u2", amount |-> 200040, status |-> 1, expired |-> FALSE])

\* the bot starts on one of the given usdtpay tables, with the accounts and the
\* okusdt rows that its orders imply
InitStored(tables) ==
    /\ usdtpay \in tables
    /\ user_balances = IF usdtpay = <<>> THEN <<>>
                       ELSE [u \in Users |-> IF u = "u2" THEN 200040 ELSE 0]
    /\ okusdt = [o \in {x \in DOMAIN usdtpay : usdtpay[x].status = 1} |->
                   [telegram_id |-> usdtpay[o].telegram_id, amount |-> usdtpay[o].amount]]
    /\ row_lock = [u \in Users |-> "free"]
    /\ purchase_orders = <<>>
    /\ completed_orders = <<>>
    /\ premium_queue = <<>>
    /\ chain = {}
    /\ dep = [h \in Handlers |-> IdleDep]
    /\ adm = IdleAdm
    /\ pay = <<>>
    /\ drain = [d \in Drains |-> IdleDrain]
    /\ sweep = IdleSweep
    /\ rec = [c \in Callers |-> IdleRec]
    /\ InitAux
    /\ hist = [Hist0 EXCEPT
                 !.credited = DOMAIN okusdt,
                 !.exact = [u \in Users |-> get_balance(user_balances, u)],
                 !.replay = [u \in Users |-> get_balance(user_balances, u)]]

InitOrders == InitStored({<<>>, StoredOpen @@ StoredMatched})

InitSweep == InitStored({<<>>, StoredMatched})

SpecOrders == InitOrders /\ [][NextDeposit]_vars

SpecSweep == InitSweep /\ [][NextOrders]_vars

\* an open order of u1 (top-up of 20.00, offset 0.0051) left by an earlier run
StoredDue ==
    (105 :> [telegram_id |-> "u1", amount |-> 200051, status |-> 0, expired |-> FALSE])

\* a transfer of that amount made before the bot started, still inside the
\* poll window
StoredTransfer == [id |-> MaxTransfers + 1, amount |-> 200051]

\* the bot starts with the open order, with or without the matched one, and
\* the indexer may already report a transfer for it
InitMatch ==
    /\ usdtpay \in {StoredDue, StoredDue @@ StoredMatched}
    /\ user_balances = [u \in Users |->
                          IF u = "u2" /\ 104 \in DOMAIN usdtpay THEN 200040 ELSE 0]
    /\ okusdt = [o \in {x \in DOMAIN usdtpay : usdtpay[x].status = 1} |->
                   [telegram_id |-> usdtpay[o].telegram_id, amount |-> usdtpay[o].amount]]
    /\ row_lock = [u \in Users |-> "free"]
    /\ purchase_orders = <<>>
    /\ completed_orders = <<>>
    /\ premium_queue = <<>>
    /\ chain \in {{}, {StoredTransfer}}
    /\ dep = [h \in Handlers |-> IdleDep]
    /\ adm = IdleAdm
    /\ pay = <<>>
    /\ drain = [d \in Drains |-> IdleDrain]
    /\ sweep = IdleSweep
    /\ rec = [c \in Callers |-> IdleRec]
    /\ InitAux
    /\ hist = [Hist0 EXCEPT
                 !.credited = DOMAIN okusdt,
                 !.exact = [u \in Users |-> get_balance(user_balances, u)],
                 !.replay = [u \in Users |-> get_balance(user_balances, u)]]

\* the matcher next to cancellation, expiry and the sweep
NextMatch ==
    \/ \E o \in DOMAIN usdtpay : ChainTransfer(o)
    \/ check_input_usdt
    \/ \E t \in DOMAIN pay : PaySelect(t)
    \/ \E t \in DOMAIN pay : PayApply(t)
    \/ \E o \in DOMAIN usdtpay : cancel_usdt_order(o)
    \/ \E o \in DOMAIN usdtpay : OrderExpires(o)
    \/ SweepRead
    \/ \E outcome \in NotifyOutcomes : SweepNotify(outcome)
    \/ SweepDelete

SpecMatch == InitMatch /\ [][NextMatch]_vars

\* the settlement registry under calls of record_completed_order
NextRegistry ==
    \/ \E c \in Callers, r \in ReqIds : RecordSelect(c, r)
    \/ \E c \in Callers : RecordInsert(c)
    \/ \E c \in Callers, u \in Users, amount \in RealizedCosts : RecordExit(c, u, amount)

SpecRegistry == InitDb /\ [][NextRegistry]_vars

\* one activate_premium call against the stored registry
NextActivate ==
    \/ ActCall
    \/ \E ok \in BOOLEAN : ActSearch(ok)
    \/ \E ok \in BOOLEAN, quote \in Quotes : ActPriceCheck(ok, quote)
    \/ \E balance \in TreasuryBalances : ActWalletCheck(balance)
    \/ \E ok \in BOOLEAN, req_id \in ReqIds, quote \in Quotes :
          ActCreateOrder(ok, req_id, quote)
    \/ \E ok \in BOOLEAN : ActConfirm(ok)
    \/ \E balance \in TreasuryBalances, ok \in BOOLEAN : ActTransfer(balance, ok)

SpecActivate == InitDb /\ [][NextActivate]_vars

\* the bot starts with an open order of u1, a pending task of u1 and accounts
\* holding 50.000; the indexer may already report the order's transfer
InitJobs ==
    /\ usdtpay = StoredDue
    /\ user_balances = [u \in Users |-> 500000]
    /\ okusdt = <<>>
    /\ row_lock = [u \in Users |-> "free"]
    /\ purchase_orders = <<>>
    /\ completed_orders = <<>>
    /\ premium_queue = <<[telegram_id |-> "u1", duration |-> 3, status |-> "pending",
                          retry_count |-> 0, created_at |-> 1]>>
    /\ chain \in {{}, {StoredTransfer}}
    /\ dep = [h \in Handlers |-> IdleDep]
    /\ adm = IdleAdm
    /\ pay = <<>>
    /\ drain = [d \in Drains |-> IdleDrain]
    /\ sweep = IdleSweep
    /\ rec = [c \in Callers |-> IdleRec]
    /\ InitAux
    /\ hist = [Hist0 EXCEPT
                 !.exact = [u \in Users |-> get_balance(user_balances, u)],
                 !.replay = [u \in Users |-> get_balance(user_balances, u)]]

\* the two repeating jobs under the scheduler
NextJobs ==
    \/ \E d \in Drains : JobFireDrain(d)
    \/ JobFirePoll
    \/ \E j \in Jobs : JobReturn(j)
    \/ \E d \in Drains : DrainSelect(d)
    \/ \E d \in Drains : DrainUpdate(d)
    \/ \E d \in Drains, notified \in BOOLEAN, notified_again \in BOOLEAN :
          DrainCheck(d, notified, notified_again)
    \/ \E d \in Drains, run \in {r \in ProviderRuns : r.req_id = "R1"} :
          DrainActivate(d, run)
    \/ \E d \in Drains : TransferBegin(d)
    \/ \E d \in Drains : TransferEnd(d)
    \/ \E d \in Drains, notified \in BOOLEAN, notified_again \in BOOLEAN :
          DrainSettle(d, notified, notified_again)
    \/ \E o \in DOMAIN usdtpay : ChainTransfer(o)
    \/ \E t \in DOMAIN pay : PaySelect(t)
    \/ \E t \in DOMAIN pay : PayApply(t)

SpecJobs == InitJobs /\ [][NextJobs]_vars

\* outbound calls of up to MaxCallers callers of send_request, the poll and a
\* username lookup
NextHttp ==
    \/ SendRequestCall
    \/ SendRequestAcquire
    \/ SendRequestReturn
    \/ \E kind \in CallKinds : HttpCall(kind)
    \/ \E ok \in BOOLEAN : HttpAttempt(ok)
    \/ \E ok \in BOOLEAN : PollRequest(ok)
    \/ \E ok \in BOOLEAN : LookupRequest(ok)

SpecHttp == Init /\ [][NextHttp]_vars

\* the bot starts on a queue that holds more pending tasks than one invocation
\* takes (or a single one): tasks of u1, the odd ones already at the retry cap
StoredQueue ==
    [i \in 1..(max_tasks + 1) |->
        [telegram_id |-> "u1", duration |-> 3, status |-> "pending",
         retry_count |-> IF i % 2 = 1 THEN max_retries ELSE 0, created_at |-> i]]

InitBacklog ==
    /\ user_balances = [u \in Users |-> 500000]
    /\ row_lock = [u \in Users |-> "free"]
    /\ usdtpay = <<>>
    /\ okusdt = <<>>
    /\ purchase_orders = <<>>
    /\ completed_orders = <<>>
    /\ premium_queue \in {SubSeq(StoredQueue, 1, 1), StoredQueue}
    /\ chain = {}
    /\ dep = [h \in Handlers |-> IdleDep]
    /\ adm = IdleAdm
    /\ pay = <<>>
    /\ drain = [d \in Drains |-> IdleDrain]
    /\ sweep = IdleSweep
    /\ rec = [c \in Callers |-> IdleRec]
    /\ InitAux
    /\ hist = [Hist0 EXCEPT
                 !.exact = [u \in Users |-> get_balance(user_balances, u)],
                 !.replay = [u \in Users |-> get_balance(user_balances, u)]]

\* open orders of two accounts, left by an earlier run, that hold every amount
\* generate_unique_usdt_amount can produce for a top-up of 10.00
StoredTaken ==
    [o \in {100 + k : k \in 1..Cardinality(Offsets)} |->
        [telegram_id |-> IF o % 2 = 1 THEN "u1" ELSE "u2",
         amount |-> 100000 + OFFSET_MIN + (o - 101), status |-> 0, expired |-> FALSE]]

InitTaken == InitStored({<<>>, StoredTaken, StoredTaken @@ StoredMatched})

\* deposit requests on an empty table and while every amount of the requested
\* top-up is taken
SpecTaken == InitTaken /\ [][NextDeposit]_vars

\* a step of process_premium_queue: the job fires or a running invocation
\* goes on
DrainStep ==
    \/ DrainStart(1)
    \/ \E d \in Drains : DrainSelect(d)
    \/ \E d \in Drains : DrainUpdate(d)
    \/ \E d \in Drains, notified \in BOOLEAN, notified_again \in BOOLEAN :
          DrainCheck(d, notified, notified_again)
    \/ \E d \in Drains, run \in {r \in ProviderRuns : r.req_id = "R1"} :
          DrainActivate(d, run)
    \/ \E d \in Drains : TransferBegin(d)
    \/ \E d \in Drains : TransferEnd(d)
    \/ \E d \in Drains, notified \in BOOLEAN, notified_again \in BOOLEAN :
          DrainSettle(d, notified, notified_again)

\* invocations of the drain loop, one at a time, on the stored queue
NextBacklog == DrainStep

SpecBacklog == InitBacklog /\ [][NextBacklog]_vars

\* two open orders of u1 left by an earlier run
StoredTwo ==
    (101 :> [telegram_id |-> "u1", amount |-> 200010, status |-> 0, expired |-> FALSE])
    @@ (102 :> [telegram_id |-> "u1", amount |-> 200020, status |-> 0, expired |-> FALSE])

InitNearCap == InitStored({<<>>, StoredTwo, StoredTwo @@ StoredMatched})

\* deposit requests on an empty table and of an account one order below its cap
SpecNearCap == InitNearCap /\ [][NextDeposit]_vars

\* invocations of the drain loop on the stored queue, the process stopping and
\* starting again at any moment
NextRestart ==
    \/ DrainStep
    \/ ProcessStop

\* the repeating job keeps firing and a running invocation keeps going
SpecRestart == InitBacklog /\ [][NextRestart]_vars /\ WF_vars(DrainStep)

Next ==
    \/ NextLedger \/ NextQueue \/ NextOrders \/ NextOverlap \/ NextMatch \/ NextRegistry
    \/ NextActivate \/ NextJobs \/ NextHttp \/ NextBacklog \/ NextRestart

Spec == Init /\ [][Next]_vars

\* ================================================================ claims

\* C1: in every reachable state every account's stored balance is >= 0,
\* whatever the interleaving of deposit credits and admin adjustments.
C1_BalanceNeverNegative ==
    \A u \in DOMAIN user_balances : user_balances[u] >= 0

\* a deposit of 10.001 was credited and an admin debit of 5 applied to it
C1_Witness ==
    \E u \in DOMAIN user_balances :
        /\ user_balances[u] = 50010
        /\ hist.admin_ops >= 1
        /\ \E t \in DOMAIN hist.credits : hist.credits[t] >= 1

\* C2 (as claimed): a transfer produces at most one ledger credit over all
\* the polls that observe it.
C2_OneCreditPerTransfer ==
    \A t \in DOMAIN hist.credits : hist.credits[t] <= 1

\* C3: no settlement id is ever debited twice; a drain step that got a
\* settlement id already in completed_orders debits nothing.
C3_AtMostOneDebit ==
    /\ \A r \in ReqIds : hist.debits[r] <= 1
    /\ \A d \in Drains :
          (drain[d].outcome # "none" /\ drain[d].message = "duplicate")
          => hist.charged[drain[d].task] = 0

\* the provider issued R1, which the registry holds, and the step is over
C3_Witness ==
    \E d \in Drains :
        /\ drain[d].outcome # "none"
        /\ drain[d].message = "duplicate"
        /\ drain[d].issued \in DOMAIN completed_orders
        /\ hist.debits[drain[d].issued] = 1
        /\ get_balance(user_balances, premium_queue[drain[d].task].telegram_id) = 500000

\* C4 (as claimed): once the drain step is over for a task whose treasury
\* transfer succeeded with a fresh settlement id and whose balance covered the
\* cost, the task is completed, the account was debited the realized cost and
\* the settlement record exists.
C4_SuccessSettles ==
    \A d \in Drains :
        (/\ drain[d].outcome # "none"
         /\ drain[d].task # NoTask
         /\ hist.sent[drain[d].task] >= 1
         /\ drain[d].balance >= hist.paid[drain[d].task])
        => /\ premium_queue[drain[d].task].status = "completed"
           /\ hist.charged[drain[d].task] = hist.paid[drain[d].task]
           /\ drain[d].issued \in DOMAIN completed_orders

C7_CapNoProviderCall ==
    \A d \in Drains :
        (drain[d].pc # "update" /\ drain[d].task # NoTask
           /\ drain[d].retry_count >= max_retries)
        => /\ drain[d].pc \notin {"activate", "transfer", "sending", "settle"}
           /\ hist.calls[drain[d].task] = 0
           /\ (drain[d].pc # "check" => premium_queue[drain[d].task].status = "failed")

\* a task claimed at the cap has been failed by the cap branch
C7_Witness ==
    \E d \in Drains :
        /\ drain[d].outcome = "cap"
        /\ drain[d].retry_count >= max_retries
        /\ premium_queue[drain[d].task].status = "failed"
        /\ hist.calls[drain[d].task] = 0

\* C8 (as claimed): a drain step whose provider call failed below the cap puts
\* the task back to pending with retry_count + 1.
C8_FailedTaskReturnsToPending ==
    [][\A d \in Drains :
        (/\ drain[d].pc = "settle"
         /\ ~drain[d].success
         /\ drain[d].retry_count < max_retries
         /\ drain'[d].pc # "settle")
        => /\ premium_queue'[drain[d].task].status = "pending"
           /\ premium_queue'[drain[d].task].retry_count = drain[d].retry_count + 1]_vars

\* C9 (as claimed): the stored balance is the exact sum of the applied deltas.
C9_BalanceIsExactSum ==
    \A u \in Users : get_balance(user_balances, u) = hist.exact[u]

C11_SetBalanceContract ==
    [][(adm.pc = "locked" /\ adm'.pc = "idle")
       => IF adm.current + adm.amount < 0
          THEN user_balances' = user_balances
          ELSE /\ adm.target \in DOMAIN user_balances'
               /\ user_balances'[adm.target] = adm.current + adm.amount]_vars

\* C12: a deposit request that finds 3 or more open orders of its account ends
\* there with the too-many-pending result: no table changes and the handler
\* is over without generating an amount or saving an order.
C12_TooManyPendingRejected ==
    [][\A h \in Handlers :
         (/\ dep[h].pc = "count"
          /\ dep'[h].pc # "count"
          /\ pending_orders_count(usdtpay, dep[h].user) >= 3)
         => /\ dep'[h] = IdleDep
            /\ dep[h].user \in hist'.rejected
            /\ UNCHANGED dbVars]_vars

\* an account was told so and still has its 3 open orders, none added
C12_Witness ==
    \E u \in hist.rejected :
        /\ pending_orders_count(usdtpay, u) = 3
        /\ hist.orders = 0

C13_InsufficientFundsNoRetry ==
    [][\A d \in Drains :
        LET i == drain[d].task IN
        (/\ drain[d].pc = "check"
         /\ drain'[d].pc # "check"
         /\ drain[d].retry_count < max_retries
         /\ get_balance(user_balances, premium_queue[i].telegram_id)
               < PRICES[premium_queue[i].duration])
        => /\ drain'[d].pc # "activate"
           /\ hist'.calls[i] = hist.calls[i]
           /\ premium_queue'[i].retry_count = premium_queue[i].retry_count
           /\ user_balances' = user_balances
           /\ Len(purchase_orders') = Len(purchase_orders) + 1
           /\ purchase_orders'[Len(purchase_orders')].status = "failure"]_vars

\* C14: every step of the drain loop other than the settlement that follows a
\* provider success confirmed by the treasury transfer leaves all balances as
\* they were; nothing is ever charged for a task without such a transfer.
C14_FailureLeavesBalance ==
    [][\A d \in Drains :
        (/\ drain'[d] # drain[d]
         /\ ~(/\ drain[d].pc = "settle"
              /\ drain[d].success
              /\ hist.sent[drain[d].task] >= 1))
        => /\ user_balances' = user_balances
           /\ hist'.charged = hist.charged]_vars

\* the provider call of a task failed, the step is over and the owner's balance
\* is the one read before the call
C14_Witness ==
    \E d \in Drains :
        /\ drain[d].outcome = "failure"
        /\ hist.calls[drain[d].task] >= 1
        /\ hist.charged[drain[d].task] = 0
        /\ get_balance(user_balances, premium_queue[drain[d].task].telegram_id)
              = drain[d].balance

C16_NoDoubleClaim ==
    /\ \A i \in DOMAIN hist.claims : hist.claims[i] <= 1
    /\ \A d \in Drains, e \in Drains :
          (/\ d # e
           /\ drain[d].pc \in {"check", "activate", "transfer", "sending", "settle"}
           /\ drain[e].pc \in {"check", "activate", "transfer", "sending", "settle"})
          => drain[d].task # drain[e].task

\* two invocations run at once, each on a task of its own, each claimed once
C16_Witness ==
    \E d \in Drains, e \in Drains :
        /\ d # e
        /\ drain[d].pc \in {"check", "activate", "transfer", "sending", "settle"}
        /\ drain[e].pc \in {"check", "activate", "transfer", "sending", "settle"}
        /\ hist.claims[drain[d].task] = 1
        /\ hist.claims[drain[e].task] = 1

\* C17 (as claimed): the task a claim selects is the earliest created of the
\* pending tasks (ids are given in order of creation).
C17_FifoByCreation ==
    [][\A d \in Drains :
        (drain[d].pc = "claim" /\ drain'[d].pc = "update")
        => \A j \in Pending(premium_queue) : drain'[d].task <= j]_vars

\* C18 (as claimed): a drain pass ends in the middle of a task only when
\* max_tasks tasks have been processed; no error ends it.
C18_NoErrorEscapes ==
    [][\A d \in Drains :
        (drain[d].pc \in {"check", "settle"} /\ drain'[d].pc = "idle")
        => drain'[d].tasks_processed >= max_tasks]_vars

\* C21: the notification loop of the sweep makes at most 3 attempts for an
\* order; a Forbidden answer ends the loop at once (one attempt when it is the
\* first answer), and the third failed attempt ends it too; either way the
\* order is queued for deletion and the sweep goes on.
C21_NotifyAttemptsCapped ==
    [][(sweep.pc = "notify" /\ sweep' # sweep)
       => LET o == SweepCurrent(sweep)
          IN /\ sweep'.attempts <= 3
             /\ sweep'.last = "forbidden"
                   => /\ o \in sweep'.to_delete
                      /\ sweep.last # "error" => sweep'.attempts = 1
             /\ sweep'.last = "gave_up"
                   => /\ sweep'.attempts = 3
                      /\ o \in sweep'.to_delete
             /\ sweep'.last = "error" => o \notin sweep'.to_delete
             /\ o \in sweep'.to_delete => sweep'.pc \in {"notify", "delete"}]_vars

\* the sweep gave up on an order after its third failed attempt, after another
\* order's owner had answered Forbidden, and goes on to the delete
C21_Witness ==
    /\ sweep.pc = "delete"
    /\ sweep.last = "gave_up"
    /\ sweep.attempts = 3
    /\ Cardinality(sweep.failed_notice) >= 2

\* C22 (as claimed): in every committed state an order is matched exactly when
\* its match credit was applied and its okusdt row exists.
C22_MatchAllOrNothing ==
    \A o \in DOMAIN usdtpay \cup DOMAIN okusdt \cup hist.credited :
        (o \in DOMAIN usdtpay /\ usdtpay[o].status = 1)
        <=> (o \in hist.credited /\ o \in DOMAIN okusdt)

\* C24: a purchase request appends a task only when the balance it read
\* covers the tier's price, and the task is then pending with retry_count 0;
\* a request that finds less tells the user so and stores nothing.  Neither
\* changes a balance.
C24_EnqueueOnlyIfAffordable ==
    [][(hist'.enqueued # hist.enqueued \/ hist'.refused # hist.refused)
       => /\ user_balances' = user_balances
          /\ Len(premium_queue') > Len(premium_queue)
                => LET task == premium_queue'[Len(premium_queue')]
                   IN /\ get_balance(user_balances, task.telegram_id)
                            >= PRICES[task.duration]
                      /\ task.status = "pending"
                      /\ task.retry_count = 0
                      /\ premium_queue' = Append(premium_queue, task)
                      /\ hist'.refused = hist.refused
          /\ \A u \in hist'.refused \ hist.refused :
                /\ \A duration \in Durations :
                      get_balance(user_balances, u) < PRICES[duration]
                /\ premium_queue' = premium_queue]_vars

\* a registered account with balance 0 was refused and holds no task, while
\* the request of an account holding 50 was accepted and its task is stored
C24_Witness ==
    \E u \in hist.refused, v \in Users :
        /\ u \in DOMAIN user_balances
        /\ \A i \in 1..Len(premium_queue) : premium_queue[i].telegram_id # u
        /\ get_balance(user_balances, v) = 500000
        /\ \E i \in 1..Len(premium_queue) :
              premium_queue[i].telegram_id = v /\ premium_queue[i].status = "pending"
        /\ hist.enqueued = 1

\* C25 (as claimed): the status of a deposit order changes only while it is
\* open (to matched or to canceled); a canceled or matched order keeps its
\* status.
C25_StatusOnlyFromOpen ==
    [][\A o \in DOMAIN usdtpay \cap DOMAIN usdtpay' :
         usdtpay'[o].status # usdtpay[o].status
         => /\ usdtpay[o].status = 0
            /\ usdtpay'[o].status \in {1, 2}]_vars

\* C26 (as claimed): a match handler that found the one open order of its
\* amount credits that order's owner exactly the transfer amount and leaves
\* every other balance alone; the handlers of one poll credit an order at most
\* once.
C26_ExactCreditOnce ==
    [][\A t \in DOMAIN pay :
         (/\ pay[t].pc = "apply"
          /\ t \notin DOMAIN pay'
          /\ hist'.credits[t] = hist.credits[t] + 1)
         => /\ user_balances'[pay[t].telegram_id]
                 = user_balances[pay[t].telegram_id] + pay[t].trc20_balance
            /\ \A u \in Users \ {pay[t].telegram_id} :
                  get_balance(user_balances', u) = get_balance(user_balances, u)
            /\ pay[t].out_trade_no \notin hist.credited]_vars

C28_OneEntryPerAttempt ==
    [][\A d \in Drains :
         (drain[d].pc = "settle" /\ drain'[d].pc # "settle")
         => LET i == drain[d].task
                n == Len(purchase_orders)
            IN /\ Len(purchase_orders') = n + 1
               /\ \A k \in 1..n : purchase_orders'[k] = purchase_orders[k]
               /\ purchase_orders'[n + 1].status =
                     (IF ~drain[d].success THEN "failure"
                      ELSE IF drain[d].message = "duplicate" THEN "duplicate"
                      ELSE "success")
               /\ purchase_orders'[n + 1].amount
                     = hist'.charged[i] - hist.charged[i]]_vars

\* C29 (as claimed): a drain step in which the fulfil call failed adds exactly
\* 1 to the task's retry_count, whether or not the owner could be notified,
\* and retry_count never leaves 0..max_retries.
C29_RetryCountByOne ==
    /\ [](\A i \in 1..Len(premium_queue) :
            premium_queue[i].retry_count \in 0..max_retries)
    /\ [][\A d \in Drains :
            (/\ drain[d].pc = "settle"
             /\ drain'[d].pc # "settle"
             /\ ~drain[d].success)
            => premium_queue'[drain[d].task].retry_count
                  = premium_queue[drain[d].task].retry_count + 1]_vars

\* C30: at most one treasury transfer is in progress at any moment.
C30_OneTransferAtATime ==
    Cardinality({d \in Drains : drain[d].pc = "sending"}) <= 1

\* one invocation is inside transfer_ton while another has reached its call
\* of transfer_ton and waits for the lock
C30_Witness ==
    \E d \in Drains, e \in Drains :
        /\ d # e
        /\ drain[d].pc = "sending"
        /\ drain[e].pc = "transfer"
        /\ drain[d].task # drain[e].task

\* C31: within one activate_premium call the treasury balance is checked
\* against the estimated cost before the order is created, the req_id is
\* obtained before transfer_ton is called, and a balance below the estimate
\* means no order and no transfer.
C31_StepsOrdered ==
    LET log == act.log
        At(e) == {i \in 1..Len(log) : log[i] = e}
        Before(e, f) == \A j \in At(f) : \E i \in At(e) : i < j
        balance_read == At("wallet_check") \cup At("wallet_short") # {}
    IN /\ Before("wallet_check", "order")
       /\ Before("order", "transfer_ton")
       /\ At("transfer_ton") # {} => act.req_id # NoReq
       /\ (balance_read /\ act.balance < act.estimated_amount)
             => At("order") \cup At("transfer_ton") \cup At("sent") = {}

\* the call went all the way to a sent transfer
C31_Witness ==
    /\ act.pc = "done"
    /\ \E i \in 1..Len(act.log) : act.log[i] = "sent"
    /\ act.balance >= act.estimated_amount

\* C32: runs of the same periodic trigger never overlap: no second invocation
\* of process_premium_queue or of check_input_usdt starts while one of the
\* same job is running.
C32_NoOverlappingRuns ==
    /\ \A j \in Jobs : sched.running[j] <= 1
    /\ Cardinality({d \in Drains : drain[d].pc # "idle"}) <= 1

\* the interval elapsed while a run was busy with a task (or with a
\* payment), and the scheduler skipped the new run
C32_Witness ==
    /\ sched.skipped = Jobs
    /\ \E d \in Drains : drain[d].pc = "activate"
    /\ \E t \in DOMAIN pay : pay[t].pc = "apply"

\* C33: every external HTTP call makes at most 3 attempts, waits 2 s then 4 s
\* between them, returns at the first success and propagates the error to
\* its caller after the last failed attempt.
C33_BoundedRetries ==
    http.pc = "done" =>
        /\ http.attempt <= 3
        /\ http.waits = SubSeq(<<2, 4>>, 1, http.attempt - 1)
        /\ http.outcome \in {"returned", "raised"}

C35_AtMostMaxTasks ==
    /\ [](\A d \in Drains :
            /\ drain[d].claimed <= 5
            /\ drain[d].claimed = 5 /\ drain[d].pc # "idle"
                  => drain[d].pc \notin {"claim", "update"})
    /\ [][\A d \in Drains :
            drain[d].pc = "claim" /\ Pending(premium_queue) = {} /\ drain'[d] # drain[d]
               => drain'[d].pc = "idle"]_vars

\* an invocation has returned after its fifth task and left a pending task
C35_Witness ==
    /\ drain[1].pc = "idle"
    /\ drain[1].claimed = 5
    /\ Pending(premium_queue) # {}

\* C36: every treasury transfer that succeeded for a task is followed by a
\* debit of the task's owner and a persisted settlement record: once no
\* invocation is working on the task, funds that left the treasury for it
\* have been charged to the account.
C36_TransferIsCharged ==
    \A t \in 1..Len(premium_queue) :
        (/\ \A d \in Drains : drain[d].pc # "idle" => drain[d].task # t
         /\ hist.sent[t] >= 1)
        => /\ hist.charged[t] > 0
           /\ \E r \in DOMAIN completed_orders :
                 completed_orders[r].telegram_id = premium_queue[t].telegram_id

C38_ProcessingTaskIsHeld ==
    \A i \in DOMAIN premium_queue :
        premium_queue[i].status = "processing"
        => \E d \in Drains : drain[d].pc # "idle" /\ drain[d].task = i

\* C39: whenever generate_unique_usdt_amount is in its loop, some amount it can
\* draw for its base amount is held by no open order, so a pass of the loop can
\* return
C39_SomeAmountFree ==
    \A h \in Handlers :
        dep[h].pc = "generate"
        => \E offset \in Offsets : ~AmountTaken(usdtpay, dep[h].base + offset)

====
